---------------------------- MODULE Spec2Model ----------------------------
(***************************************************************************)
(* A model of the 3ds Max Toolkit engine (src/engine.py, class MaxEngine). *)
(*                                                                         *)
(* The engine is a single object whose handlers are called one at a time,  *)
(* from the host's main thread or, for some, from another thread.  Its     *)
(* state is the fields it keeps (_max_version, _parent_to_max,             *)
(* _safe_dialog, _dock_widgets, the menu), the Qt objects it created       *)
(* (dialogs, dock widgets) and the host's postLoadingMenus callback table. *)
(* Every handler of the engine is one action; the two handlers that block  *)
(* or log a phase (show_modal, destroy_engine) are followed through their  *)
(* positions.  The variable `last` records what the most recent handler    *)
(* call did that its caller can observe: what it returned or raised, which *)
(* callbacks it invoked and which lines it logged.                         *)
(***************************************************************************)
EXTENDS Integers, Sequences, FiniteSets, TLC

VARIABLES
    hostVersion,        \* what pymxs.runtime.maxVersion()[0] answers
    attachAvailable,    \* whether MaxPlus has AttachQWidgetToMax
    max_version,        \* MaxEngine._max_version (None is NoVersion)
    commands,           \* Engine.commands, in registration order
    run_at_startup,     \* the 'run_at_startup' setting
    file_to_open,       \* whether SGTK_FILE_TO_OPEN names a file
    phase,              \* the engine's lifecycle phase
    menuPresent,        \* the SG menu is in the main menu bar
    menuEnabled,        \* the SG menu is enabled
    menuScripts,        \* postLoadingMenus scripts registered under our id
    win,                \* the Qt windows the engine created, by instance
    created,            \* how many widget instances were constructed
    safe_dialog,        \* MaxEngine._safe_dialog
    created_qt_dialogs, \* Engine.created_qt_dialogs
    dock_widgets,       \* MaxEngine._dock_widgets
    mainWindowDocks,    \* the dock widgets of the host's main window
    parent_to_max,      \* MaxEngine._parent_to_max
    modal,              \* the show_modal call in progress, if any
    panelShown,         \* per panel_id, the widget its last show_panel returned
    startup,            \* how far the one-shot startup pass of this session got
    versionQueries,     \* how often this engine asked the host for maxVersion()
    pendingOutput,      \* _print_output calls queued for the main thread
    last                \* what the most recent handler call did

vars == <<hostVersion, attachAvailable, max_version, commands, run_at_startup,
          file_to_open,
          phase, menuPresent, menuEnabled, menuScripts, win, created,
          safe_dialog, created_qt_dialogs, dock_widgets, mainWindowDocks,
          parent_to_max, modal, panelShown, startup, versionQueries,
          pendingOutput, last>>

(***************************************************************************)
(* Bounds of the model.                                                    *)
(***************************************************************************)
MaxCommands == 2
MaxDirectives == 2
MaxWidgets == 2
MaxPanels == 2
MaxFailing == 1
MaxPending == 2
MaxVersionBelowZero == 3000
MaxVersionInput == 26000

(***************************************************************************)
(* Sequences as Python lists.                                              *)
(***************************************************************************)
Range(s) == {s[i] : i \in 1..Len(s)}

\* list.remove(x): drops the first occurrence of x.
RECURSIVE Remove(_, _)
Remove(s, x) ==
    IF s = <<>> THEN <<>>
    ELSE IF Head(s) = x THEN Tail(s)
    ELSE <<Head(s)>> \o Remove(Tail(s), x)

Count(s, x) == Cardinality({i \in 1..Len(s) : s[i] = x})

AtMost(S, n) == {T \in SUBSET S : Cardinality(T) <= n}

SeqsUpTo(S, n) == UNION {[1..k -> S] : k \in 0..n}

(***************************************************************************)
(* Startup command dispatch: _run_app_instance_commands.                   *)
(***************************************************************************)
AppNames == {"A", "B"}
NoApp == "none"
CommandNames == {"x", "y", "z"}

\* One entry of Engine.commands: the command's name, the instance name of
\* its properties["app"] (NoApp when the command has none) and whether its
\* callback raises when invoked.
CommandRecords == [name : CommandNames, app : AppNames \cup {NoApp}, raises : BOOLEAN]

\* Engine.commands is a dict: its keys are distinct.
CommandRegistries ==
    {s \in SeqsUpTo(CommandRecords, MaxCommands) :
        \A i, j \in 1..Len(s) : s[i].name = s[j].name => i = j}

\* One record of run_at_startup; name "" asks for all commands of the instance.
Directives == [app_instance : AppNames, name : {"", "x"}]
DirectiveLists == SeqsUpTo(Directives, MaxDirectives)

IsCommandOf(inst, c) == c.app = inst

\* The dictionary the first loop builds: app instance name -> the commands
\* it registered, in the order of Engine.commands.  An instance without a
\* command has no key.
AppInstanceCommands(cmds) ==
    [inst \in {cmds[i].app : i \in 1..Len(cmds)} \ {NoApp} |->
        SelectSeq(cmds, LAMBDA c : IsCommandOf(inst, c))]

\* command_dict.get(name): the entry of that name, or <<>> for None.
CommandDictGet(command_dict, name) ==
    SelectSeq(command_dict, LAMBDA c : c.name = name)

\* A mutant of InvokeAll: an exception of a callback is caught and the
\* callbacks after it are invoked.
RECURSIVE InvokeAllCaught(_, _)
InvokeAllCaught(entries, d) ==
    IF entries = <<>> THEN [calls |-> <<>>, raised |-> FALSE]
    ELSE LET c == Head(entries)
             call == [directive |-> d, command |-> c.name]
             rest == InvokeAllCaught(Tail(entries), d)
         IN  [calls |-> <<call>> \o rest.calls, raised |-> rest.raised]

\* Invoke the callbacks of `entries` in order; an exception raised by one
\* is not caught, so the ones after it are not invoked.
RECURSIVE InvokeAll(_, _)
InvokeAll(entries, d) ==
    IF entries = <<>> THEN [calls |-> <<>>, raised |-> FALSE]
    ELSE LET c == Head(entries)
             call == [directive |-> d, command |-> c.name]
         IN  IF c.raises THEN [calls |-> <<call>>, raised |-> TRUE]
             ELSE LET rest == InvokeAll(Tail(entries), d)
                  IN  [calls |-> <<call>> \o rest.calls, raised |-> rest.raised]

\* A mutant of RunDirective: a named command runs every command of the instance.
RunDirectiveAll(dicts, setting, d) ==
    IF setting.app_instance \notin DOMAIN dicts
    THEN [calls |-> <<>>, raised |-> FALSE, outcome |-> "warned",
          warnings |-> <<[directive |-> d, kind |-> "app_not_installed"]>>]
    ELSE LET run == InvokeAll(dicts[setting.app_instance], d)
         IN  [calls |-> run.calls, raised |-> run.raised,
              outcome |-> IF run.raised THEN "raised" ELSE "ran",
              warnings |-> <<>>]

\* A mutant of RunDirective: an unknown command name is skipped silently.
RunDirectiveSilent(dicts, setting, d) ==
    IF setting.app_instance \notin DOMAIN dicts
    THEN [calls |-> <<>>, raised |-> FALSE, outcome |-> "warned",
          warnings |-> <<[directive |-> d, kind |-> "app_not_installed"]>>]
    ELSE LET command_dict == dicts[setting.app_instance]
             found == CommandDictGet(command_dict, setting.name)
             run == InvokeAll(IF setting.name = "" THEN command_dict ELSE found, d)
         IN  [calls |-> run.calls, raised |-> run.raised,
              outcome |-> IF run.raised THEN "raised" ELSE "ran",
              warnings |-> <<>>]

\* The body of the loop over run_at_startup, for directive number d.
RunDirective(dicts, setting, d) ==
    IF setting.app_instance \notin DOMAIN dicts
    THEN [calls |-> <<>>, raised |-> FALSE, outcome |-> "warned",
          warnings |-> <<[directive |-> d, kind |-> "app_not_installed"]>>]
    ELSE LET command_dict == dicts[setting.app_instance]
         IN  IF setting.name = ""
             THEN LET run == InvokeAll(command_dict, d)
                  IN  [calls |-> run.calls, raised |-> run.raised,
                       outcome |-> IF run.raised THEN "raised" ELSE "ran",
                       warnings |-> <<>>]
             ELSE LET found == CommandDictGet(command_dict, setting.name)
                  IN  IF found # <<>>
                      THEN LET run == InvokeAll(found, d)
                           IN  [calls |-> run.calls, raised |-> run.raised,
                                outcome |-> IF run.raised THEN "raised" ELSE "ran",
                                warnings |-> <<>>]
                      ELSE [calls |-> <<>>, raised |-> FALSE, outcome |-> "warned",
                            warnings |-> <<[directive |-> d, kind |-> "unknown_command"]>>]

\* The loop over run_at_startup from directive d on.  `outcome` has one
\* entry per directive the loop reached.
RECURSIVE RunDirectives(_, _, _)
RunDirectives(dicts, settings, d) ==
    IF d > Len(settings)
    THEN [calls |-> <<>>, warnings |-> <<>>, outcome |-> <<>>, raised |-> FALSE]
    ELSE LET one == RunDirective(dicts, settings[d], d)
         IN  IF one.raised
             THEN [calls |-> one.calls, warnings |-> one.warnings,
                   outcome |-> <<one.outcome>>, raised |-> TRUE]
             ELSE LET rest == RunDirectives(dicts, settings, d + 1)
                  IN  [calls |-> one.calls \o rest.calls,
                       warnings |-> one.warnings \o rest.warnings,
                       outcome |-> <<one.outcome>> \o rest.outcome,
                       raised |-> rest.raised]

\* _run_app_instance_commands as a whole.
RunAppInstanceCommands(cmds, settings) ==
    RunDirectives(AppInstanceCommands(cmds), settings, 1)


(***************************************************************************)
(* Version resolver: _get_max_version and _max_version_to_year.            *)
(***************************************************************************)
NoVersion == -1
MAXIMUM_SUPPORTED_VERSION == 25000

\* The releases the model runs the engine in: 3ds Max 2015, 2018 and 2020.
Versions == {17000, 20000, 22000}

\* A mutant of CeilThousandth: the quotient is rounded down.
FloorThousandth(version) == version \div 1000

\* math.ceil(version / 1000.0)
CeilThousandth(version) == -((-version) \div 1000)

MaxVersionToYear(version) == 2000 + (CeilThousandth(version) - 2)

\* _get_max_version: what it returns, and what it leaves in _max_version.
GetMaxVersion(cache, host) == IF cache = NoVersion THEN host ELSE cache

\* A mutant of GetMaxVersionQueries: the host is asked on every call.
GetMaxVersionQueriesUncached(cache, queries) == queries + 1

\* _get_max_version: the host is asked for maxVersion() only while
\* _max_version is None.
GetMaxVersionQueries(cache, queries) ==
    IF cache = NoVersion THEN queries + 1 ELSE queries

\* The host's main thread, and the threads a handler can be called from.
MainThread == "main"
Threads == {"main", "background"}

\* execute_in_main_thread and async_execute_in_main_thread: the callable
\* runs on the main thread whichever thread asks for it.
ExecuteInMainThread(caller) == MainThread

\* A statement of a handler that uses pymxs itself runs on the thread the
\* handler was called from.
CalledDirectly(caller) == caller

Year == MaxVersionToYear(GetMaxVersion(max_version, hostVersion))

\* The release years the version branches of the engine compare with.
LastYearWithoutDocking == 2017
LastYearWithAttach == 2019
FirstYearWithAttach == 2016

(***************************************************************************)
(* The state after MaxEngine.__init__, and the parts of it that the        *)
(* specifications below start from.                                        *)
(***************************************************************************)
NoWindow == [kind |-> "none", state |-> "none", visible |-> FALSE,
             attached |-> FALSE, panel |-> 0]
NoModal == [pc |-> "idle"]
NoCall == [op |-> "none"]

InitHost ==
    /\ hostVersion \in Versions
    /\ attachAvailable = (MaxVersionToYear(hostVersion) >= FirstYearWithAttach)

InitWindows ==
    /\ win = [w \in 1..MaxWidgets |-> NoWindow]
    /\ created = 0
    /\ safe_dialog = <<>>
    /\ created_qt_dialogs = <<>>
    /\ dock_widgets = <<>>
    /\ mainWindowDocks = {}
    /\ parent_to_max = TRUE
    /\ modal = NoModal
    /\ panelShown = [p \in 1..MaxPanels |-> 0]

InitUnloaded ==
    /\ max_version = NoVersion
    /\ phase = "Unloaded"
    /\ menuPresent = FALSE
    /\ menuEnabled = FALSE
    /\ menuScripts = 0
    /\ startup = "pending"
    /\ versionQueries = 0
    /\ pendingOutput = 0
    /\ last = NoCall

windowVars == <<win, created, safe_dialog, created_qt_dialogs, dock_widgets,
                mainWindowDocks, parent_to_max, modal, panelShown>>
configVars == <<hostVersion, attachAvailable, commands, run_at_startup,
                file_to_open>>
menuVars == <<menuPresent, menuEnabled, menuScripts>>
versionVars == <<max_version, versionQueries>>

(***************************************************************************)
(* Engine lifecycle: pre_app_init, post_app_init, post_context_change,     *)
(* _on_menus_loaded, destroy_engine.                                       *)
(***************************************************************************)

\* pre_app_init, on the engine the framework has just constructed: it logs
\* "Initializing...", resolves the host version (warning when it is newer
\* than the last supported one) and starts the list of tracked dialogs.
PreAppInit ==
    /\ phase = "Unloaded"
    /\ modal.pc = "idle"
    /\ max_version' = GetMaxVersion(NoVersion, hostVersion)
    /\ versionQueries' = GetMaxVersionQueries(NoVersion, 0)
    /\ safe_dialog' = <<>>
    /\ dock_widgets' = <<>>
    /\ parent_to_max' = TRUE
    /\ phase' = "Initializing"
    /\ startup' = "pending"
    /\ last' = [op |-> "pre_app_init",
                warned |-> hostVersion > MAXIMUM_SUPPORTED_VERSION,
                hostThreads |-> {ExecuteInMainThread(MainThread)}]
    /\ UNCHANGED <<configVars, pendingOutput, menuVars, win, created, created_qt_dialogs,
                   mainWindowDocks, modal, panelShown>>

\* _add_shotgun_menu: create_menu() puts the SG menu in the main menu bar
\* (replacing the one there), enable_menu() enables it.
AddShotgunMenu ==
    /\ menuPresent' = TRUE
    /\ menuEnabled' = TRUE

\* _post_app_init: builds the menu, registers the postLoadingMenus script,
\* runs the startup commands and loads SGTK_FILE_TO_OPEN when it is set.
\* An exception of a startup command leaves through this handler.
PostAppInit ==
    /\ phase = "Initializing"
    /\ startup = "pending"
    /\ AddShotgunMenu
    /\ menuScripts' = menuScripts + 1
    /\ LET run == RunAppInstanceCommands(commands, run_at_startup)
       IN  \E file \in IF file_to_open THEN {"loaded", "load_failed"} ELSE {"unset"} :
           \E caller \in Threads :
             /\ startup' = IF run.raised THEN "failed" ELSE "done"
             /\ phase' = IF run.raised THEN phase ELSE "Ready"
             /\ last' = [op |-> "post_app_init",
                         caller |-> caller,
                         hostThreads |-> {ExecuteInMainThread(caller)},
                         calls |-> run.calls,
                         warnings |-> run.warnings,
                         outcome |-> run.outcome,
                         raised |-> run.raised,
                         file |-> IF run.raised THEN "unset" ELSE file]
    /\ UNCHANGED <<configVars, pendingOutput, versionVars, windowVars>>

(***************************************************************************)
(* The startup dispatch over every registry and every directive list of    *)
(* the bounds: the engine is where pre_app_init leaves it.                 *)
(***************************************************************************)
InitDispatch ==
    /\ hostVersion \in {24000}
    /\ attachAvailable = TRUE
    /\ commands \in CommandRegistries
    /\ run_at_startup \in DirectiveLists
    /\ file_to_open = FALSE
    /\ InitWindows
    /\ max_version = hostVersion
    /\ versionQueries = 1
    /\ pendingOutput = 0
    /\ phase = "Initializing"
    /\ menuPresent = FALSE
    /\ menuEnabled = FALSE
    /\ menuScripts = 0
    /\ startup = "pending"
    /\ last = [op |-> "pre_app_init", warned |-> FALSE,
               hostThreads |-> {MainThread}]

NextDispatch == PostAppInit

SpecDispatch == InitDispatch /\ [][NextDispatch]_vars

\* The calls of the pass that directive number d made, in order.
CallsOf(d) == SelectSeq(last.calls, LAMBDA c : c.directive = d)
CommandsOf(d) == [i \in 1..Len(CallsOf(d)) |-> CallsOf(d)[i].command]

\* What app instance `inst` registered, in registration order.
RegisteredBy(inst) ==
    LET mine == SelectSeq(commands, LAMBDA c : c.app = inst)
    IN  [i \in 1..Len(mine) |-> mine[i].name]

DispatchCompleted == last.op = "post_app_init" /\ ~last.raised

\* C1: when the startup pass runs to its end, each directive whose app
\* instance registered a command has invoked, in registration order and
\* once each, all commands of that instance if its name is empty, and only
\* the named command if its name is one the instance registered.
C1_DispatchInvokes ==
    DispatchCompleted =>
        \A d \in 1..Len(run_at_startup) :
            LET setting == run_at_startup[d]
                known == RegisteredBy(setting.app_instance)
            IN  known # <<>> =>
                  /\ setting.name = "" => CommandsOf(d) = known
                  /\ (setting.name # "" /\ setting.name \in Range(known))
                        => CommandsOf(d) = <<setting.name>>

\* C1 witness: a completed pass with an all-commands directive of an
\* instance with two commands and a directive naming one command.
C1_Witness ==
    /\ DispatchCompleted
    /\ \E d, e \in 1..Len(run_at_startup) :
          /\ run_at_startup[d].name = ""
          /\ Len(RegisteredBy(run_at_startup[d].app_instance)) = 2
          /\ Len(CallsOf(d)) = 2
          /\ run_at_startup[e].name # ""
          /\ Len(CallsOf(e)) = 1

IsWarnedDirective(d) ==
    LET setting == run_at_startup[d]
        known == RegisteredBy(setting.app_instance)
    IN  \/ known = <<>>
        \/ setting.name # "" /\ setting.name \notin Range(known)

\* C2: a directive whose app instance registered nothing, or whose command
\* the instance did not register, invokes no callback and logs one
\* warning, and the directive after it is processed.
C2_UnknownDirectiveWarned ==
    last.op = "post_app_init" =>
        \A d \in 1..Len(last.outcome) :
            IsWarnedDirective(d) =>
                /\ CallsOf(d) = <<>>
                /\ Cardinality({i \in 1..Len(last.warnings) :
                                   last.warnings[i].directive = d}) = 1
                /\ last.outcome[d] = "warned"
                /\ d < Len(run_at_startup) => Len(last.outcome) > d

\* C2 witness: both kinds of warning in one pass, followed by a directive
\* that ran a command.
C2_Witness ==
    /\ last.op = "post_app_init"
    /\ \E i \in 1..Len(last.warnings) : last.warnings[i].directive = 1
    /\ Len(last.outcome) >= 2
    /\ last.outcome[2] = "ran"
    /\ CallsOf(2) # <<>>


(***************************************************************************)
(* Dialog lifecycle: _create_dialog, DialogEvents.eventFilter,             *)
(* close_windows, safe_dialog_exec, show_panel, show_modal.                *)
(***************************************************************************)
Widgets == 1..MaxWidgets
Panels == 1..MaxPanels

IsOpenDialog(w) == win[w].kind = "dialog" /\ win[w].state = "open"
IsOpenDock(w) == win[w].kind = "dock" /\ win[w].state = "open"

\* _create_dialog, the attach branch: the dialog is attached to 3ds Max
\* when the flag is set and the release is 2019 or older, unless MaxPlus
\* lacks AttachQWidgetToMax (AttributeError: the previous parent is kept).
AttachesToMax(flag) ==
    flag /\ Year <= LastYearWithAttach /\ attachAvailable

\* The dialog _create_dialog hands back: open, not yet shown.
NewDialog(flag) ==
    [kind |-> "dialog", state |-> "open", visible |-> FALSE,
     attached |-> AttachesToMax(flag), panel |-> 0]

\* A mutant of TrackDialog: the dialog is appended twice.
TrackDialogTwice(list, dialog) == Append(Append(list, dialog), dialog)

\* _create_dialog: self._safe_dialog.append(dialog)
TrackDialog(list, dialog) == Append(list, dialog)

\* A mutant of EventFilterClose: the Close event leaves the list alone.
EventFilterKeeps(list, obj) == list

\* DialogEvents.eventFilter on a Close event for obj.
EventFilterClose(list, obj) ==
    IF obj \in Range(list) THEN Remove(list, obj) ELSE list

\* The framework's close callback: a closed dialog leaves created_qt_dialogs.
DialogClosed(list, dialog) ==
    IF dialog \in Range(list) THEN Remove(list, dialog) ELSE list

ClosedWindow(w) == [win[w] EXCEPT !.state = "closed", !.visible = FALSE]

Idle == phase = "Ready" /\ modal.pc = "idle"

lifecycleVars == <<versionVars, phase, menuPresent, menuEnabled, menuScripts,
                   startup>>

\* show_dialog of the framework: _create_dialog makes and tracks the
\* dialog, which is then shown.
ShowDialog ==
    /\ Idle
    /\ created < MaxWidgets
    /\ LET w == created + 1
       IN  /\ created' = w
           /\ win' = [win EXCEPT ![w] = [NewDialog(parent_to_max) EXCEPT !.visible = TRUE]]
           /\ safe_dialog' = TrackDialog(safe_dialog, w)
           /\ created_qt_dialogs' = Append(created_qt_dialogs, w)
           /\ last' = [op |-> "show_dialog", dialog |-> w,
                       trackedBefore |-> Len(safe_dialog)]
    /\ UNCHANGED <<configVars, pendingOutput, lifecycleVars, dock_widgets, mainWindowDocks,
                   parent_to_max, modal, panelShown>>

\* The user closes a dialog: its Close event passes the event filter and
\* the dialog closes.
UserClosesDialog ==
    /\ Idle
    /\ \E w \in Widgets :
          /\ IsOpenDialog(w)
          /\ win[w].visible
          /\ safe_dialog' = EventFilterClose(safe_dialog, w)
          /\ created_qt_dialogs' = DialogClosed(created_qt_dialogs, w)
          /\ win' = [win EXCEPT ![w] = ClosedWindow(w)]
          /\ last' = [op |-> "user_close", dialog |-> w,
                      trackedBefore |-> Len(safe_dialog)]
    /\ UNCHANGED <<configVars, pendingOutput, lifecycleVars, created, dock_widgets,
                   mainWindowDocks, parent_to_max, modal, panelShown>>

\* The app that owns a dialog hides it; safe_dialog_exec finds it hidden.
AppHidesDialog ==
    /\ Idle
    /\ \E w \in Widgets :
          /\ IsOpenDialog(w)
          /\ win[w].visible
          /\ win' = [win EXCEPT ![w].visible = FALSE]
          /\ last' = [op |-> "hide"]
    /\ UNCHANGED <<configVars, pendingOutput, lifecycleVars, created, safe_dialog,
                   created_qt_dialogs, dock_widgets, mainWindowDocks,
                   parent_to_max, modal, panelShown>>

\* A mutant of CloseDialogs: the first close() that raises ends the loop.
RECURSIVE CloseDialogsAbort(_, _, _, _)
CloseDialogsAbort(opened, failing, filtered, st) ==
    IF opened = <<>> THEN st
    ELSE LET d == Head(opened)
         IN  IF d \in failing
             THEN [st EXCEPT !.attempted = Append(@, d), !.logged = Append(@, d)]
             ELSE CloseDialogsAbort(Tail(opened), failing, filtered,
                     [st EXCEPT !.attempted = Append(@, d),
                                !.safe = IF d \in Range(@) THEN Remove(@, d) ELSE @,
                                !.qt = IF d \in Range(@) THEN Remove(@, d) ELSE @,
                                !.closed = @ \cup {d}])

\* The first loop of close_windows over `opened`, a copy of
\* created_qt_dialogs.  close() raises for the dialogs of `failing`; for
\* those of `filtered` the Close event had passed the event filter by then.
RECURSIVE CloseDialogs(_, _, _, _)
CloseDialogs(opened, failing, filtered, st) ==
    IF opened = <<>> THEN st
    ELSE LET d == Head(opened)
             next ==
               IF d \in failing
               THEN [st EXCEPT
                       !.attempted = Append(@, d),
                       !.logged = Append(@, d),
                       !.safe = IF d \in filtered THEN EventFilterClose(@, d) ELSE @]
               ELSE [st EXCEPT
                       !.attempted = Append(@, d),
                       !.safe = EventFilterClose(@, d),
                       !.qt = DialogClosed(@, d),
                       !.closed = @ \cup {d}]
         IN  CloseDialogs(Tail(opened), failing, filtered, next)

\* The second loop of close_windows over `docks`, a copy of _dock_widgets.
\* DockWidget.closeEvent closes the panel's widget first; when that raises
\* nothing catches it and the loop ends there.  Otherwise the dock leaves
\* the main window and _remove_dock_widget drops it from _dock_widgets.
RECURSIVE CloseDocks(_, _, _)
CloseDocks(docks, failing, st) ==
    IF docks = <<>> THEN st
    ELSE LET d == Head(docks)
         IN  IF d \in failing
             THEN [st EXCEPT !.docksAttempted = Append(@, d), !.raised = TRUE]
             ELSE CloseDocks(Tail(docks), failing,
                     [st EXCEPT !.docksAttempted = Append(@, d),
                                !.docks = Remove(@, d),
                                !.closed = @ \cup {d}])

\* close_windows as a whole.
CloseWindowsResult(failing, filtered, dockFailing) ==
    LET start == [attempted |-> <<>>, logged |-> <<>>, safe |-> safe_dialog,
                  qt |-> created_qt_dialogs, closed |-> {},
                  docksAttempted |-> <<>>, docks |-> dock_widgets,
                  raised |-> FALSE]
        afterDialogs == CloseDialogs(created_qt_dialogs, failing, filtered, start)
    IN  CloseDocks(dock_widgets, dockFailing, afterDialogs)

CloseWindows ==
    /\ Idle
    /\ \E failing \in AtMost(Range(created_qt_dialogs), MaxFailing) :
       \E filtered \in SUBSET failing :
       \E dockFailing \in AtMost(Range(dock_widgets), MaxFailing) :
          LET r == CloseWindowsResult(failing, filtered, dockFailing)
          IN  /\ safe_dialog' = r.safe
              /\ created_qt_dialogs' = r.qt
              /\ dock_widgets' = r.docks
              /\ mainWindowDocks' = mainWindowDocks \ r.closed
              /\ win' = [w \in Widgets |->
                           IF w \in r.closed THEN ClosedWindow(w) ELSE win[w]]
              /\ last' = [op |-> "close_windows",
                          dialogs |-> created_qt_dialogs,
                          docks |-> dock_widgets,
                          failing |-> failing,
                          dockFailing |-> dockFailing,
                          attempted |-> r.attempted,
                          logged |-> r.logged,
                          docksAttempted |-> r.docksAttempted,
                          raised |-> r.raised]
    /\ UNCHANGED <<configVars, pendingOutput, lifecycleVars, created, parent_to_max, modal,
                   panelShown>>

\* safe_dialog_exec, first loop: the tracked dialogs that are visible.
Toggled == SelectSeq(safe_dialog, LAMBDA d : win[d].visible)

Hidden(windows, toggled) ==
    [w \in Widgets |->
        IF w \in Range(toggled) THEN [windows[w] EXCEPT !.visible = FALSE]
        ELSE windows[w]]

Shown(windows, toggled) ==
    [w \in Widgets |->
        IF w \in Range(toggled) THEN [windows[w] EXCEPT !.visible = TRUE]
        ELSE windows[w]]

\* A mutant of AfterFunc: the dialogs are shown again only when func returned.
AfterFuncNoFinally(windows, toggled, raised) ==
    IF raised THEN windows ELSE Shown(windows, toggled)

\* safe_dialog_exec, the finally clause: every toggled dialog is shown
\* again, whether func returned or raised.
AfterFunc(windows, toggled, raised) == Shown(windows, toggled)

\* safe_dialog_exec as a whole; func returns or raises.
SafeDialogExec ==
    /\ Idle
    /\ \E raised \in BOOLEAN :
          LET toggled == Toggled
              during == Hidden(win, toggled)
          IN  /\ win' = AfterFunc(during, toggled, raised)
              /\ last' = [op |-> "safe_dialog_exec",
                          raised |-> raised,
                          tracked |-> Range(safe_dialog),
                          visibleBefore |-> {d \in Range(safe_dialog) : win[d].visible},
                          visibleDuring |-> {d \in Range(safe_dialog) : during[d].visible}]
    /\ UNCHANGED <<configVars, pendingOutput, lifecycleVars, created, safe_dialog,
                   created_qt_dialogs, dock_widgets, mainWindowDocks,
                   parent_to_max, modal, panelShown>>


\* A mutant of FindChild: the lookup never finds the dock widget.
FindChildNever(panel_id) == {}

\* main_window.findChild(QDockWidget, "sgtk_dock_widget_" + panel_id): the
\* dock widgets of the main window that carry the panel's object name.
FindChild(panel_id) ==
    {w \in mainWindowDocks : win[w].panel = panel_id}

NewDock(panel_id) ==
    [kind |-> "dock", state |-> "open", visible |-> TRUE,
     attached |-> FALSE, panel |-> panel_id]

\* What show_panel tells its caller, with the widget the previous call for
\* the same panel_id returned and whether that widget is still open.
PanelCall(panel_id, widget, constructed, docked) ==
    [op |-> "show_panel", panel |-> panel_id, returned |-> widget,
     constructed |-> constructed, docked |-> docked,
     previous |-> panelShown[panel_id],
     previousOpen |-> IF panelShown[panel_id] = 0 THEN FALSE
                      ELSE win[panelShown[panel_id]].state = "open"]

\* show_panel on a release without Qt docking (2017 or older): a warning,
\* and the framework's show_panel, which shows the panel in a modeless
\* dialog made by _create_dialog.
ShowPanelFallback(panel_id) ==
    /\ Year <= LastYearWithoutDocking
    /\ created < MaxWidgets
    /\ LET w == created + 1
       IN  /\ created' = w
           /\ win' = [win EXCEPT ![w] = [NewDialog(parent_to_max) EXCEPT !.visible = TRUE]]
           /\ safe_dialog' = TrackDialog(safe_dialog, w)
           /\ created_qt_dialogs' = Append(created_qt_dialogs, w)
           /\ panelShown' = [panelShown EXCEPT ![panel_id] = w]
           /\ last' = PanelCall(panel_id, w, TRUE, FALSE)
    /\ UNCHANGED <<dock_widgets, mainWindowDocks>>

\* show_panel on a release with docking, no dock widget of that name in the
\* main window: the widget and its dock widget are made and remembered.
ShowPanelCreate(panel_id) ==
    /\ Year > LastYearWithoutDocking
    /\ FindChild(panel_id) = {}
    /\ created < MaxWidgets
    /\ LET w == created + 1
       IN  /\ created' = w
           /\ win' = [win EXCEPT ![w] = NewDock(panel_id)]
           /\ dock_widgets' = Append(dock_widgets, w)
           /\ mainWindowDocks' = mainWindowDocks \cup {w}
           /\ panelShown' = [panelShown EXCEPT ![panel_id] = w]
           /\ last' = PanelCall(panel_id, w, TRUE, TRUE)
    /\ UNCHANGED <<safe_dialog, created_qt_dialogs>>

\* show_panel on a release with docking, the dock widget exists: its
\* widget is returned and the dock widget shown.
ShowPanelReuse(panel_id) ==
    /\ Year > LastYearWithoutDocking
    /\ FindChild(panel_id) # {}
    /\ LET w == CHOOSE d \in FindChild(panel_id) : TRUE
       IN  /\ win' = [win EXCEPT ![w].visible = TRUE]
           /\ panelShown' = [panelShown EXCEPT ![panel_id] = w]
           /\ last' = PanelCall(panel_id, w, FALSE, TRUE)
    /\ UNCHANGED <<created, safe_dialog, created_qt_dialogs, dock_widgets,
                   mainWindowDocks>>

ShowPanel ==
    /\ Idle
    /\ \E panel_id \in Panels :
          \/ ShowPanelFallback(panel_id)
          \/ ShowPanelCreate(panel_id)
          \/ ShowPanelReuse(panel_id)
    /\ UNCHANGED <<configVars, pendingOutput, lifecycleVars, parent_to_max, modal>>

\* A mutant of RemoveDockWidget: the dock widget stays in the list.
RemoveDockWidgetKeeps(list, dock_widget) == list

\* _remove_dock_widget: the slot of the dock widget's closed signal.
RemoveDockWidget(list, dock_widget) == Remove(list, dock_widget)

\* The user closes a dock widget: DockWidget.closeEvent closes the panel's
\* widget, unparents the dock widget and emits closed.
UserClosesDock ==
    /\ Idle
    /\ \E w \in Widgets :
          /\ IsOpenDock(w)
          /\ win' = [win EXCEPT ![w] = ClosedWindow(w)]
          /\ mainWindowDocks' = mainWindowDocks \ {w}
          /\ dock_widgets' = RemoveDockWidget(dock_widgets, w)
          /\ last' = [op |-> "dock_close", dock |-> w,
                      trackedBefore |-> Len(dock_widgets)]
    /\ UNCHANGED <<configVars, pendingOutput, lifecycleVars, created, safe_dialog,
                   created_qt_dialogs, parent_to_max, modal, panelShown>>

\* A mutant of ParentToMaxAfterCreate: the flag is set again only when
\* the creation did not raise.
ParentToMaxAfterCreateNoFinally(raised) == ~raised

\* show_modal, the inner finally clause: self._parent_to_max = True.
ParentToMaxAfterCreate(raised) == TRUE

\* A mutant of MenuAfterModal: the menu is enabled again only when nothing raised.
MenuAfterModalNoFinally(raisedInside) == ~raisedInside

\* show_modal, the outer finally clause: enable_menu().
MenuAfterModal(raisedInside) == TRUE

\* show_modal, its last line: return (status, widget).  `widget` is bound
\* by the assignment that follows _create_dialog_with_widget; when that
\* call raised, reading it raises UnboundLocalError.
ModalReturn(status, widgetBound, widget) ==
    IF widgetBound
    THEN [raised |-> FALSE, status |-> status, widget |-> widget]
    ELSE [raised |-> TRUE, status |-> "none", widget |-> 0]

\* What a finished show_modal call leaves in `last`.
ModalCall(raisedInside, ret) ==
    [op |-> "show_modal", pc |-> "done", ui |-> TRUE,
     raisedInside |-> raisedInside, logged |-> raisedInside,
     propagated |-> ret.raised, status |-> ret.status, widget |-> ret.widget]

\* show_modal without a UI: an error is logged and None returned.
ShowModalNoUI ==
    /\ Idle
    /\ last' = [op |-> "show_modal", pc |-> "done", ui |-> FALSE]
    /\ UNCHANGED <<configVars, pendingOutput, lifecycleVars, windowVars>>

\* show_modal up to the call that creates the dialog: the menu is
\* disabled and parenting to the host window switched off.
ShowModalBegin ==
    /\ Idle
    /\ created < MaxWidgets
    /\ menuEnabled' = FALSE
    /\ parent_to_max' = FALSE
    /\ modal' = [pc |-> "creating"]
    /\ last' = [op |-> "show_modal", pc |-> "creating", ui |-> TRUE]
    /\ UNCHANGED <<configVars, pendingOutput, versionVars, phase, menuPresent, menuScripts,
                   startup, win, created, safe_dialog, created_qt_dialogs,
                   dock_widgets, mainWindowDocks, panelShown>>

\* _create_dialog_with_widget succeeds: the dialog is tracked, parenting
\* is switched on again and exec_() starts the modal loop.
ShowModalCreated ==
    /\ modal.pc = "creating"
    /\ LET w == created + 1
       IN  /\ created' = w
           /\ win' = [win EXCEPT ![w] = [NewDialog(parent_to_max) EXCEPT !.visible = TRUE]]
           /\ safe_dialog' = TrackDialog(safe_dialog, w)
           /\ created_qt_dialogs' = Append(created_qt_dialogs, w)
           /\ modal' = [pc |-> "exec", dialog |-> w]
           /\ last' = [op |-> "show_modal", pc |-> "exec", ui |-> TRUE]
    /\ parent_to_max' = ParentToMaxAfterCreate(FALSE)
    /\ UNCHANGED <<configVars, pendingOutput, lifecycleVars, dock_widgets, mainWindowDocks,
                   panelShown>>

\* _create_dialog_with_widget raises, before the dialog exists (the
\* widget's constructor) or after it was tracked (the stylesheet): the inner
\* finally switches parenting on again, the handler logs the exception, the
\* outer finally enables the menu and the return statement is reached.
ShowModalCreateRaises ==
    /\ modal.pc = "creating"
    /\ \E tracked \in BOOLEAN :
          LET w == created + 1
          IN  /\ created' = IF tracked THEN w ELSE created
              /\ win' = IF tracked
                        THEN [win EXCEPT ![w] = NewDialog(parent_to_max)]
                        ELSE win
              /\ safe_dialog' = IF tracked THEN TrackDialog(safe_dialog, w)
                                ELSE safe_dialog
              /\ created_qt_dialogs' = IF tracked THEN Append(created_qt_dialogs, w)
                                       ELSE created_qt_dialogs
    /\ parent_to_max' = ParentToMaxAfterCreate(TRUE)
    /\ menuEnabled' = IF MenuAfterModal(TRUE) THEN TRUE ELSE menuEnabled
    /\ modal' = NoModal
    /\ last' = ModalCall(TRUE, ModalReturn("Rejected", FALSE, 0))
    /\ UNCHANGED <<configVars, pendingOutput, versionVars, phase, menuPresent, menuScripts,
                   startup, dock_widgets, mainWindowDocks, panelShown>>

\* The modal loop ends: the dialog is accepted or rejected (it is hidden),
\* the user closes it (its Close event passes the event filter), or exec_()
\* raises.  The outer finally enables the menu; (status, widget) is returned.
ShowModalFinish ==
    /\ modal.pc = "exec"
    /\ \E how \in {"Accepted", "Rejected", "closed", "raised"} :
          LET w == modal.dialog
              status == IF how = "Accepted" THEN "Accepted" ELSE "Rejected"
          IN  /\ win' = IF how = "closed" THEN [win EXCEPT ![w] = ClosedWindow(w)]
                        ELSE IF how = "raised" THEN win
                        ELSE [win EXCEPT ![w].visible = FALSE]
              /\ safe_dialog' = IF how = "closed" THEN EventFilterClose(safe_dialog, w)
                                ELSE safe_dialog
              /\ created_qt_dialogs' = IF how = "closed"
                                       THEN DialogClosed(created_qt_dialogs, w)
                                       ELSE created_qt_dialogs
              /\ menuEnabled' = IF MenuAfterModal(how = "raised") THEN TRUE
                                ELSE menuEnabled
              /\ last' = ModalCall(how = "raised", ModalReturn(status, TRUE, w))
    /\ modal' = NoModal
    /\ UNCHANGED <<configVars, pendingOutput, versionVars, phase, menuPresent, menuScripts,
                   startup, created, dock_widgets, mainWindowDocks,
                   parent_to_max, panelShown>>

(***************************************************************************)
(* The windows of a running engine: the state is the one post_app_init     *)
(* leaves, on each release of Versions.                                    *)
(***************************************************************************)
InitDialogs ==
    /\ InitHost
    /\ commands = <<>>
    /\ run_at_startup = <<>>
    /\ file_to_open = FALSE
    /\ InitWindows
    /\ max_version = hostVersion
    /\ versionQueries = 1
    /\ pendingOutput = 0
    /\ phase = "Ready"
    /\ menuPresent = TRUE
    /\ menuEnabled = TRUE
    /\ menuScripts = 1
    /\ startup = "done"
    /\ last = [op |-> "post_app_init", caller |-> MainThread,
               hostThreads |-> {MainThread}, calls |-> <<>>,
               warnings |-> <<>>, outcome |-> <<>>, raised |-> FALSE,
               file |-> "unset"]

NextDialogs ==
    \/ ShowDialog
    \/ UserClosesDialog
    \/ AppHidesDialog
    \/ CloseWindows
    \/ SafeDialogExec
    \/ ShowPanel
    \/ UserClosesDock
    \/ ShowModalNoUI
    \/ ShowModalBegin
    \/ ShowModalCreated
    \/ ShowModalCreateRaises
    \/ ShowModalFinish

SpecDialogs == InitDialogs /\ [][NextDialogs]_vars


\* C3: when safe_dialog_exec has finished, by returning or by re-raising
\* func's exception, the tracked dialogs that were visible when it was
\* called are visible and those that were hidden are hidden.
C3_SafeDialogExecRestores ==
    last.op = "safe_dialog_exec" =>
        /\ Range(safe_dialog) = last.tracked
        /\ \A d \in last.tracked : win[d].visible <=> d \in last.visibleBefore

\* C3 witness: func raised with two tracked dialogs, one of them visible.
C3_Witness ==
    /\ last.op = "safe_dialog_exec"
    /\ last.raised
    /\ Cardinality(last.tracked) = 2
    /\ Cardinality(last.visibleBefore) = 1
    /\ last.visibleDuring = {}

\* C4 as stated: a show_panel call that follows an earlier call for the
\* same panel_id returns the widget that call returned and constructs
\* nothing.
C4_ShowPanelIdempotent ==
    (last.op = "show_panel" /\ last.previous # 0) =>
        /\ last.returned = last.previous
        /\ ~last.constructed

\* C4 amended: on a release with docking (2018 or later), a show_panel call
\* that follows an earlier call for the same panel_id whose dock widget
\* has not been closed since returns the widget that call returned and
\* constructs neither a widget nor a dock widget.
C4_ShowPanelReusesOpenDock ==
    (/\ last.op = "show_panel"
     /\ Year > LastYearWithoutDocking
     /\ last.previousOpen) =>
        /\ last.returned = last.previous
        /\ ~last.constructed
        /\ Cardinality({w \in Widgets : IsOpenDock(w) /\ win[w].panel = last.panel}) = 1

\* C4 witness: a second show_panel for a panel whose dock widget is open.
C4_Witness ==
    /\ last.op = "show_panel"
    /\ Year > LastYearWithoutDocking
    /\ last.previousOpen
    /\ last.returned = last.previous
    /\ last.docked

\* C5: when close() raises for some of the N dialogs close_windows found,
\* the close of all N was attempted, each failure was logged, and the
\* dialogs that closed without error are tracked no more.
C5_CloseWindowsDialogs ==
    last.op = "close_windows" =>
        /\ last.attempted = last.dialogs
        /\ Range(last.logged) = last.failing
        /\ Len(last.logged) = Cardinality(last.failing)
        /\ \A d \in Range(last.dialogs) \ last.failing :
              /\ d \notin Range(safe_dialog)
              /\ d \notin Range(created_qt_dialogs)
              /\ win[d].state = "closed"

\* C5 witness: two tracked dialogs, the first of which raised on close.
C5_Witness ==
    /\ last.op = "close_windows"
    /\ Len(last.dialogs) = 2
    /\ last.failing = {last.dialogs[1]}
    /\ Len(safe_dialog) <= 1

\* C6: close_windows attempts the close of every tracked dialog and of
\* every tracked dock widget, logs each failure and lets none of them
\* escape.
C6_CloseWindowsContinues ==
    last.op = "close_windows" =>
        /\ last.attempted = last.dialogs
        /\ last.docksAttempted = last.docks
        /\ Range(last.logged) = last.failing
        /\ ~last.raised

\* C7: with a UI, the menu is disabled from before the dialog is created
\* until the modal loop has ended, and enabled once show_modal has ended,
\* whether or not something raised inside it.
C7_MenuDisabledDuringModal ==
    /\ modal.pc \in {"creating", "exec"} => ~menuEnabled
    /\ (last.op = "show_modal" /\ last.pc = "done" /\ last.ui) => menuEnabled

\* C7 witness: a show_modal call in which something raised has ended.
C7_Witness ==
    /\ last.op = "show_modal"
    /\ last.pc = "done"
    /\ last.ui
    /\ last.raisedInside
    /\ menuEnabled

\* C8: an exception raised while show_modal creates or runs the dialog is
\* logged and does not reach the caller, who gets (Rejected, widget).
C8_ModalExceptionContained ==
    (last.op = "show_modal" /\ last.pc = "done" /\ last.ui /\ last.raisedInside) =>
        /\ last.logged
        /\ ~last.propagated
        /\ last.status = "Rejected"

\* C9: in every step, a dialog that _create_dialog makes gets one entry in
\* _safe_dialog and none in _dock_widgets, an entry appears only for a
\* dialog made in that step, no dialog has two entries, and a closed dialog
\* has none.
C9_DialogTracking ==
    [][\A w \in Widgets :
          /\ Count(safe_dialog', w) <= 1
          /\ win'[w].state = "closed" => w \notin Range(safe_dialog')
          /\ w \in Range(safe_dialog') =>
                win'[w].kind = "dialog" /\ w \notin Range(dock_widgets')
          /\ (win[w].state = "none" /\ win'[w].kind = "dialog") =>
                Count(safe_dialog', w) = 1
          /\ Count(safe_dialog', w) > Count(safe_dialog, w) =>
                win[w].state = "none"
      ]_vars

\* C9 witness: the user has closed one of two tracked dialogs.
C9_Witness ==
    /\ last.op = "user_close"
    /\ last.trackedBefore = 2
    /\ Len(safe_dialog) = 1
    /\ win[last.dialog].state = "closed"


(***************************************************************************)
(* The engine's lifecycle, over the releases of Versions and the startup   *)
(* configurations of at most one command and one directive.                *)
(***************************************************************************)

\* A mutant of MenuAfterRemove: the menu stays in the menu bar.
MenuAfterRemoveKept(present) == present

\* _remove_shotgun_menu: destroy_menu() takes the SG menu off the main
\* menu bar.
MenuAfterRemove(present) == FALSE

\* callbacks.removeScripts(postLoadingMenus, id=sg_tk_on_menus_loaded):
\* every script registered under the id is removed.
ScriptsAfterRemove(scripts) == scripts - scripts

\* post_context_change: the menu is built again for the new context.
PostContextChange ==
    /\ Idle
    /\ AddShotgunMenu
    /\ last' = [op |-> "post_context_change"]
    /\ UNCHANGED <<configVars, pendingOutput, versionVars, phase, menuScripts, startup,
                   windowVars>>

\* The host fires postLoadingMenus: each script registered for it calls
\* _on_menus_loaded of the current engine.
OnMenusLoaded ==
    /\ menuScripts > 0
    /\ startup = "done"
    /\ phase # "Destroying"
    /\ modal.pc = "idle"
    /\ AddShotgunMenu
    /\ last' = [op |-> "on_menus_loaded"]
    /\ UNCHANGED <<configVars, pendingOutput, versionVars, phase, menuScripts, startup,
                   windowVars>>

\* update_shotgun_menu: the menu is removed and added again.
UpdateShotgunMenu ==
    /\ Idle
    /\ AddShotgunMenu
    /\ last' = [op |-> "update_shotgun_menu",
                removedFirst |-> ~MenuAfterRemove(menuPresent)]
    /\ UNCHANGED <<configVars, pendingOutput, versionVars, phase, menuScripts, startup,
                   windowVars>>

\* destroy_engine, its first line: "Destroying..." is logged.  The log
\* handler prints at once on the main thread and queues the print when the
\* call came from another thread.
DestroyEngineBegin ==
    /\ Idle
    /\ \E caller \in Threads :
          /\ caller # MainThread => pendingOutput < MaxPending
          /\ pendingOutput' = IF caller = MainThread THEN pendingOutput
                              ELSE pendingOutput + 1
          /\ last' = [op |-> "destroy_engine", pc |-> "begun", caller |-> caller]
    /\ phase' = "Destroying"
    /\ UNCHANGED <<configVars, versionVars, menuVars, startup, windowVars>>

\* destroy_engine, the rest: the postLoadingMenus scripts of the engine
\* are removed from the host and the menu is removed.
DestroyEngineEnd ==
    /\ phase = "Destroying"
    /\ menuScripts' = ScriptsAfterRemove(menuScripts)
    /\ menuPresent' = MenuAfterRemove(menuPresent)
    /\ menuEnabled' = (menuEnabled /\ MenuAfterRemove(menuPresent))
    /\ phase' = "Unloaded"
    /\ last' = [op |-> "destroy_engine", pc |-> "done", caller |-> last.caller,
                hostThreads |-> {CalledDirectly(last.caller)}]
    /\ UNCHANGED <<configVars, pendingOutput, versionVars, startup, windowVars>>

\* _get_max_version called on its own, from any thread.
GetMaxVersionCall ==
    /\ phase # "Destroying"
    /\ \E caller \in Threads :
          /\ max_version' = GetMaxVersion(max_version, hostVersion)
          /\ versionQueries' = GetMaxVersionQueries(max_version, versionQueries)
          /\ last' = [op |-> "get_max_version", caller |-> caller,
                      returned |-> GetMaxVersion(max_version, hostVersion),
                      cached |-> max_version,
                      hostThreads |-> IF max_version = NoVersion
                                      THEN {ExecuteInMainThread(caller)}
                                      ELSE {}]
    /\ UNCHANGED <<configVars, pendingOutput, phase, menuVars, startup,
                   windowVars>>

\* _emit_log_message: the record is formatted and _print_output handed to
\* async_execute_in_main_thread, which runs it at once when the caller is
\* the main thread and queues it for the main thread otherwise.
EmitLogMessage ==
    /\ phase # "Destroying"
    /\ \E caller \in Threads :
          /\ caller # MainThread => pendingOutput < MaxPending
          /\ pendingOutput' = IF caller = MainThread THEN pendingOutput
                              ELSE pendingOutput + 1
          /\ last' = [op |-> "emit_log_message", caller |-> caller,
                      hostThreads |-> IF caller = MainThread
                                      THEN {ExecuteInMainThread(caller)}
                                      ELSE {}]
    /\ UNCHANGED <<configVars, versionVars, phase, menuVars, startup,
                   windowVars>>

\* _print_output of a queued message, run by the main thread: print(msg).
PrintOutput ==
    /\ phase # "Destroying"
    /\ pendingOutput > 0
    /\ pendingOutput' = pendingOutput - 1
    /\ last' = [op |-> "print_output", caller |-> MainThread,
                hostThreads |-> {MainThread}]
    /\ UNCHANGED <<configVars, versionVars, phase, menuVars, startup,
                   windowVars>>

InitLifecycle ==
    /\ InitHost
    /\ commands \in {c \in CommandRegistries : Len(c) <= 1}
    /\ run_at_startup \in {d \in DirectiveLists : Len(d) <= 1}
    /\ file_to_open \in BOOLEAN
    /\ InitWindows
    /\ InitUnloaded

NextLifecycle ==
    \/ PreAppInit
    \/ PostAppInit
    \/ PostContextChange
    \/ OnMenusLoaded
    \/ UpdateShotgunMenu
    \/ DestroyEngineBegin
    \/ DestroyEngineEnd
    \/ GetMaxVersionCall
    \/ EmitLogMessage
    \/ PrintOutput

SpecLifecycle == InitLifecycle /\ [][NextLifecycle]_vars

\* The steps of the lifecycle: Unloaded -> Initializing -> Ready ->
\* Destroying -> Unloaded.
LifecycleSteps ==
    {<<"Unloaded", "Initializing">>, <<"Initializing", "Ready">>,
     <<"Ready", "Destroying">>, <<"Destroying", "Unloaded">>}

\* C10: the phase changes only along Unloaded -> Initializing -> Ready ->
\* Destroying -> Unloaded; Ready is entered by a post_app_init that ran to
\* its end, with the menu present and the postLoadingMenus script
\* registered; a context change and a menus-loaded callback taken in Ready
\* leave the engine in Ready with the menu present; destroy_engine leaves
\* no postLoadingMenus script registered and no menu.
C10_Lifecycle ==
    [][/\ phase' # phase => <<phase, phase'>> \in LifecycleSteps
       /\ phase' \in {"Unloaded", "Initializing", "Ready", "Destroying"}
       /\ (phase # "Ready" /\ phase' = "Ready") =>
             /\ last'.op = "post_app_init" /\ ~last'.raised
             /\ menuPresent' /\ menuScripts' > 0
       /\ (phase = "Ready" /\ last'.op \in {"post_context_change", "on_menus_loaded"}) =>
             phase' = "Ready" /\ menuPresent'
       /\ last'.op \in {"post_context_change", "on_menus_loaded"} => phase = "Ready"
       /\ (phase = "Destroying" /\ phase' = "Unloaded") =>
             menuScripts' = 0 /\ ~menuPresent'
       /\ phase' = "Unloaded" => menuScripts' = 0 /\ ~menuPresent'
      ]_vars

\* C10 witness: an engine that went through Ready, took a context change
\* there and was destroyed.
C10_Witness ==
    /\ phase = "Unloaded"
    /\ last.op = "destroy_engine"
    /\ last.pc = "done"
    /\ max_version # NoVersion
    /\ menuScripts = 0
    /\ ~menuPresent

(***************************************************************************)
(* Thread affinity of the host's scripting runtime.                        *)
(***************************************************************************)

\* The handler calls that reach the host's scripting runtime.
IsHostCall ==
    \/ last.op \in {"pre_app_init", "post_app_init", "get_max_version",
                    "emit_log_message", "print_output"}
    \/ last.op = "destroy_engine" /\ last.pc = "done"

\* C11: whichever thread calls post_app_init, a log emission,
\* destroy_engine or the version getter, every use the call makes of the
\* host's scripting runtime (version query, postLoadingMenus registration
\* and removal, file load, console output) runs on the main thread.
C11_HostThreadAffinity ==
    IsHostCall => last.hostThreads \subseteq {MainThread}

(***************************************************************************)
(* _max_version_to_year as a function of its argument, over hosts that     *)
(* answer any number of -MaxVersionBelowZero..MaxVersionInput.             *)
(***************************************************************************)
VersionInputs == (0 - MaxVersionBelowZero)..MaxVersionInput

\* _max_version_to_year(version), called as the engine calls it: with the
\* number the host answers and with MAXIMUM_SUPPORTED_VERSION.
MaxVersionToYearCall ==
    /\ \E version \in {hostVersion, MAXIMUM_SUPPORTED_VERSION} :
          last' = [op |-> "max_version_to_year", version |-> version,
                   year |-> MaxVersionToYear(version), raised |-> FALSE]
    /\ UNCHANGED <<configVars, pendingOutput, lifecycleVars, windowVars>>

InitVersion ==
    /\ hostVersion \in VersionInputs
    /\ attachAvailable = TRUE
    /\ commands = <<>>
    /\ run_at_startup = <<>>
    /\ file_to_open = FALSE
    /\ InitWindows
    /\ InitUnloaded

NextVersion == MaxVersionToYearCall

SpecVersion == InitVersion /\ [][NextVersion]_vars

\* ceil(v/1000): the least integer n with 1000 * n >= v.
CeilingOfThousandth(v) ==
    CHOOSE n \in ((v \div 1000) - 1)..((v \div 1000) + 1) :
        /\ 1000 * n >= v
        /\ 1000 * (n - 1) < v

C13_VersionCache ==
    /\ [](versionQueries <= 1)
    /\ [](max_version # NoVersion => versionQueries = 1)
    /\ [][/\ last'.op = "get_max_version" =>
               /\ last'.returned = max_version'
               /\ max_version = NoVersion =>
                      versionQueries = 0 /\ versionQueries' = 1
               /\ max_version # NoVersion =>
                      /\ last'.returned = max_version
                      /\ versionQueries' = versionQueries
          /\ (max_version # NoVersion /\ last'.op # "pre_app_init") =>
               max_version' = max_version
         ]_vars

\* C13 witness: a call that found the version cached by an earlier call,
\* the host having been asked once.
C13_Witness ==
    /\ last.op = "get_max_version"
    /\ last.cached # NoVersion
    /\ last.returned = last.cached
    /\ versionQueries = 1

(***************************************************************************)
(* Startup commands that raise.                                            *)
(***************************************************************************)

\* The callback registered under `name` raises when it is invoked.
RaisesWhenInvoked(name) ==
    \E i \in 1..Len(commands) : commands[i].name = name /\ commands[i].raises

\* C14: an exception of an invoked startup command is not caught by
\* _run_app_instance_commands: it leaves post_app_init, the callback that
\* raised is the last one invoked, no directive after the one it belongs
\* to is reached, the file of SGTK_FILE_TO_OPEN is not loaded, and the pass
\* is not run again.
C14_StartupExceptionPropagates ==
    /\ [](last.op = "post_app_init" =>
            /\ \A i \in 1..Len(last.calls) :
                   RaisesWhenInvoked(last.calls[i].command) =>
                       i = Len(last.calls) /\ last.raised
            /\ last.raised =>
                   /\ last.calls # <<>>
                   /\ RaisesWhenInvoked(last.calls[Len(last.calls)].command)
                   /\ last.calls[Len(last.calls)].directive = Len(last.outcome)
                   /\ last.outcome[Len(last.outcome)] = "raised"
                   /\ last.file = "unset"
                   /\ startup = "failed")
    /\ [][startup = "failed" => last' = last]_vars

\* C14 witness: the first of two commands of an instance raised under an
\* all-commands directive; the second command and the second directive
\* were not run.
C14_Witness ==
    /\ last.op = "post_app_init"
    /\ last.raised
    /\ Len(run_at_startup) = 2
    /\ run_at_startup[1].name = ""
    /\ Len(RegisteredBy(run_at_startup[1].app_instance)) = 2
    /\ Len(last.calls) = 1
    /\ Len(last.outcome) = 1

(***************************************************************************)
(* Parenting to the host window around show_modal.                         *)
(***************************************************************************)

\* C16: _parent_to_max is False only while show_modal creates its dialog:
\* it is True again when the creation has ended, by success or by an
\* exception, and in every state outside that step; the dialog show_modal
\* creates is never attached to the host window, and a dialog that
\* _create_dialog makes outside show_modal is attached on the releases up
\* to 2019 that have AttachQWidgetToMax.
C16_ParentingRestored ==
    /\ [](modal.pc # "creating" => parent_to_max)
    /\ [](modal.pc = "exec" => ~win[modal.dialog].attached)
    /\ [][/\ (modal.pc = "creating" /\ modal'.pc # "creating") => parent_to_max'
          /\ (modal.pc = "creating" /\ created' = created + 1) =>
                ~win'[created'].attached
          /\ (modal.pc # "creating" /\ created' = created + 1
                /\ win'[created'].kind = "dialog") =>
                win'[created'].attached =
                    (MaxVersionToYear(hostVersion) <= LastYearWithAttach
                        /\ attachAvailable)
         ]_vars

\* C16 witness: on a release that attaches dialogs, the dialog of a
\* show_modal call is not attached and the dialog created after that call
\* is.
C16_Witness ==
    /\ MaxVersionToYear(hostVersion) <= LastYearWithAttach
    /\ attachAvailable
    /\ win[1].kind = "dialog"
    /\ ~win[1].attached
    /\ win[2].kind = "dialog"
    /\ win[2].attached
    /\ parent_to_max
    /\ modal.pc = "idle"

(***************************************************************************)
(* Tracking of dock widgets.                                               *)
(***************************************************************************)

\* The dock widgets show_panel created that were not closed since.
OpenDocks == {w \in Widgets : IsOpenDock(w)}

\* C15: after any sequence of show_panel calls and dock-widget closes,
\* _dock_widgets holds exactly the dock widgets show_panel created that are
\* not closed, each once and no two for one panel_id, and these are the
\* dock widgets of the host's main window; the step that closes a dock
\* widget takes it out of _dock_widgets and out of the main window, once.
C15_DockTracking ==
    /\ [](/\ Range(dock_widgets) = OpenDocks
          /\ mainWindowDocks = OpenDocks
          /\ \A w \in Widgets : Count(dock_widgets, w) <= 1
          /\ \A i, j \in 1..Len(dock_widgets) :
                win[dock_widgets[i]].panel = win[dock_widgets[j]].panel => i = j
          /\ MaxVersionToYear(hostVersion) <= LastYearWithoutDocking =>
                dock_widgets = <<>>)
    /\ [][/\ \A w \in Widgets :
                (IsOpenDock(w) /\ win'[w].state = "closed") =>
                    /\ Count(dock_widgets, w) = 1
                    /\ Count(dock_widgets', w) = 0
                    /\ w \in mainWindowDocks
                    /\ w \notin mainWindowDocks'
          /\ Len(dock_widgets') =
                Len(dock_widgets)
                  - Cardinality({w \in Widgets :
                        IsOpenDock(w) /\ win'[w].state = "closed"})
                  + Cardinality({w \in Widgets :
                        win[w].kind = "none" /\ win'[w].kind = "dock"})
         ]_vars

\* C15 witness: two panels were docked and one of the dock widgets was
\* closed by the user; the other is the one tracked.
C15_Witness ==
    /\ last.op = "dock_close"
    /\ last.trackedBefore = 2
    /\ Len(dock_widgets) = 1
    /\ win[last.dock].state = "closed"
    /\ last.dock \notin Range(dock_widgets)
    /\ last.dock \notin mainWindowDocks
    /\ Cardinality(OpenDocks) = 1

=============================================================================
